---- MODULE Spec2Model ----
(***************************************************************************)
(* Model of the cache layer (config/redis.py: CacheManager over a Redis    *)
(* client) and of the LLM model registry (config/llm_models.py:            *)
(* LLMModelManager) of TradingAgentsSystem.                                 *)
(*                                                                         *)
(* Texts (Python str, Redis strings) are sequences of one-character        *)
(* strings, so that serialisation, parsing and glob matching are computed  *)
(* character by character, as json.dumps / json.loads / KEYS compute them. *)
(***************************************************************************)
EXTENDS Integers, Sequences, FiniteSets, TLC

(***************************************************************************)
(* Python values handed to CacheManager.set and returned by get.           *)
(***************************************************************************)
PyNone == [t |-> "none"]
PyBool(b) == [t |-> "bool", b |-> b]
PyInt(n) == [t |-> "int", n |-> n]
PyStr(s) == [t |-> "str", s |-> s]
PyList(items) == [t |-> "list", items |-> items]
\* a dict is the sequence of its <<key, value>> pairs in insertion order
PyDict(pairs) == [t |-> "dict", pairs |-> pairs]
\* an object json cannot serialise (a datetime, a set, ...); str(o) is "<o>"
PyObj == [t |-> "obj"]

PyTrue == PyBool(TRUE)
PyFalse == PyBool(FALSE)

IsStructured(v) == v.t \in {"dict", "list"}

Range(f) == {f[i] : i \in DOMAIN f}

\* Python's ==, on the values above: dicts compare without regard to order
RECURSIVE PyEq(_, _)
PyEq(a, b) ==
    IF a.t # b.t THEN FALSE
    ELSE IF a.t = "list" THEN
        /\ Len(a.items) = Len(b.items)
        /\ \A i \in 1..Len(a.items) : PyEq(a.items[i], b.items[i])
    ELSE IF a.t = "dict" THEN
        /\ Len(a.pairs) = Len(b.pairs)
        /\ \A i \in 1..Len(a.pairs) : \E j \in 1..Len(b.pairs) :
              /\ PyEq(a.pairs[i][1], b.pairs[j][1])
              /\ PyEq(a.pairs[i][2], b.pairs[j][2])
    ELSE a = b

(***************************************************************************)
(* str(value) for the scalars, and the decimal text of an integer.         *)
(***************************************************************************)
Digits == <<"0", "1", "2", "3", "4", "5", "6", "7", "8", "9">>

RECURSIVE NatText(_)
NatText(n) == IF n < 10 THEN <<Digits[n + 1]>>
              ELSE NatText(n \div 10) \o <<Digits[(n % 10) + 1]>>

IntText(n) == IF n < 0 THEN <<"-">> \o NatText(-n) ELSE NatText(n)

\* str(value) of a value that is neither dict, list nor str
str(v) ==
    CASE v.t = "none" -> <<"N", "o", "n", "e">>
      [] v.t = "bool" -> IF v.b THEN <<"T", "r", "u", "e">>
                                ELSE <<"F", "a", "l", "s", "e">>
      [] v.t = "int" -> IntText(v.n)
      [] v.t = "obj" -> <<"<", "o", ">">>

(***************************************************************************)
(* json.dumps(value, ensure_ascii=False) with the default separators.      *)
(***************************************************************************)
RECURSIVE Escape(_)
Escape(s) ==
    IF s = <<>> THEN <<>>
    ELSE LET c == Head(s)
             e == CASE c = "\"" -> <<"\\", "\"">>
                    [] c = "\\" -> <<"\\", "\\">>
                    [] c = "\n" -> <<"\\", "n">>
                    [] c = "\r" -> <<"\\", "r">>
                    [] c = "\t" -> <<"\\", "t">>
                    [] OTHER -> <<c>>
         IN e \o Escape(Tail(s))

Quote(s) == <<"\"">> \o Escape(s) \o <<"\"">>

\* the keys json.dumps accepts: str, int, bool, None (float is not modelled)
KeyOk(k) == k.t \in {"str", "int", "bool", "none"}

KeyText(k) ==
    CASE k.t = "str" -> k.s
      [] k.t = "int" -> IntText(k.n)
      [] k.t = "bool" -> IF k.b THEN <<"t", "r", "u", "e">>
                                ELSE <<"f", "a", "l", "s", "e">>
      [] k.t = "none" -> <<"n", "u", "l", "l">>

\* json.dumps raises TypeError on a value it cannot serialise
RECURSIVE DumpsRaises(_)
DumpsRaises(v) ==
    CASE v.t = "obj" -> TRUE
      [] v.t = "list" -> \E i \in 1..Len(v.items) : DumpsRaises(v.items[i])
      [] v.t = "dict" -> \E i \in 1..Len(v.pairs) :
                            \/ ~KeyOk(v.pairs[i][1])
                            \/ DumpsRaises(v.pairs[i][2])
      [] OTHER -> FALSE

RECURSIVE dumps(_)
RECURSIVE DumpItems(_, _)
RECURSIVE DumpPairs(_, _)
DumpItems(items, i) ==
    IF i > Len(items) THEN <<>>
    ELSE (IF i > 1 THEN <<",", " ">> ELSE <<>>)
         \o dumps(items[i]) \o DumpItems(items, i + 1)

DumpPairs(pairs, i) ==
    IF i > Len(pairs) THEN <<>>
    ELSE (IF i > 1 THEN <<",", " ">> ELSE <<>>)
         \o Quote(KeyText(pairs[i][1])) \o <<":", " ">> \o dumps(pairs[i][2])
         \o DumpPairs(pairs, i + 1)

dumps(v) ==
    CASE v.t = "none" -> <<"n", "u", "l", "l">>
      [] v.t = "bool" -> IF v.b THEN <<"t", "r", "u", "e">>
                                ELSE <<"f", "a", "l", "s", "e">>
      [] v.t = "int" -> IntText(v.n)
      [] v.t = "str" -> Quote(v.s)
      [] v.t = "list" -> <<"[">> \o DumpItems(v.items, 1) \o <<"]">>
      [] v.t = "dict" -> <<"{">> \o DumpPairs(v.pairs, 1) \o <<"}">>

(***************************************************************************)
(* json.loads(text): the recursive-descent scanner of the json module.     *)
(* Texts of the model hold no '.', 'e'/'E' after a digit, no NaN/Infinity  *)
(* and no \b, \f or \u escape, so floats and those escapes do not occur.   *)
(***************************************************************************)
WS == {" ", "\n", "\t", "\r"}
DigitChars == Range(Digits)

Fail == [ok |-> FALSE, val |-> PyNone, end |-> 0]
Ok(v, e) == [ok |-> TRUE, val |-> v, end |-> e]

At(s, i) == IF i >= 1 /\ i <= Len(s) THEN s[i] ELSE "EOF"

RECURSIVE SkipWs(_, _)
SkipWs(s, i) == IF At(s, i) \in WS THEN SkipWs(s, i + 1) ELSE i

StartsWith(s, i, w) ==
    /\ i + Len(w) - 1 <= Len(s)
    /\ \A j \in 1..Len(w) : s[i + j - 1] = w[j]

\* py_scanstring, strict: s[i] is the character after the opening quote
RECURSIVE ScanString(_, _, _)
ScanString(s, i, acc) ==
    LET c == At(s, i) IN
    IF c = "EOF" \/ c \in {"\n", "\t", "\r"} THEN Fail
    ELSE IF c = "\"" THEN Ok(PyStr(acc), i + 1)
    ELSE IF c = "\\" THEN
        LET d == At(s, i + 1) IN
        IF d \in {"\"", "\\", "/"} THEN ScanString(s, i + 2, Append(acc, d))
        ELSE IF d = "n" THEN ScanString(s, i + 2, Append(acc, "\n"))
        ELSE IF d = "r" THEN ScanString(s, i + 2, Append(acc, "\r"))
        ELSE IF d = "t" THEN ScanString(s, i + 2, Append(acc, "\t"))
        ELSE Fail
    ELSE ScanString(s, i + 1, Append(acc, c))

\* NUMBER_RE, integer part: -?(0|[1-9][0-9]*)
RECURSIVE ScanDigits(_, _, _)
ScanDigits(s, i, n) ==
    IF At(s, i) \in DigitChars
    THEN ScanDigits(s, i + 1,
                    10 * n + (CHOOSE d \in 0..9 : Digits[d + 1] = s[i]))
    ELSE Ok(PyInt(n), i)

ScanNumber(s, i) ==
    LET neg == At(s, i) = "-"
        j == IF neg THEN i + 1 ELSE i
        r == IF At(s, j) = "0" THEN Ok(PyInt(0), j + 1)
             ELSE IF At(s, j) \in DigitChars THEN ScanDigits(s, j, 0)
             ELSE Fail
    IN IF r.ok /\ neg THEN Ok(PyInt(-r.val.n), r.end) ELSE r

\* dict(pairs): a repeated key keeps its first position and its last value
DictPut(pairs, k, v) ==
    IF \E i \in 1..Len(pairs) : pairs[i][1] = k
    THEN [i \in 1..Len(pairs) |->
             IF pairs[i][1] = k THEN <<k, v>> ELSE pairs[i]]
    ELSE Append(pairs, <<k, v>>)

RECURSIVE scan_once(_, _)
RECURSIVE JSONArrayItems(_, _, _)
RECURSIVE JSONObjectItems(_, _, _)

\* s[i] is the first character of the next item
JSONArrayItems(s, i, acc) ==
    LET r == scan_once(s, i) IN
    IF ~r.ok THEN Fail
    ELSE LET k == SkipWs(s, r.end)
             items == Append(acc, r.val)
         IN IF At(s, k) = "]" THEN Ok(PyList(items), k + 1)
            ELSE IF At(s, k) = "," THEN JSONArrayItems(s, SkipWs(s, k + 1), items)
            ELSE Fail

\* s[i] is the character after the opening quote of the next key
JSONObjectItems(s, i, acc) ==
    LET key == ScanString(s, i, <<>>) IN
    IF ~key.ok THEN Fail
    ELSE LET c == SkipWs(s, key.end) IN
         IF At(s, c) # ":" THEN Fail
         ELSE LET r == scan_once(s, SkipWs(s, c + 1)) IN
              IF ~r.ok THEN Fail
              ELSE LET k == SkipWs(s, r.end)
                       pairs == DictPut(acc, key.val, r.val)
                   IN IF At(s, k) = "}" THEN Ok(PyDict(pairs), k + 1)
                      ELSE IF At(s, k) = ","
                      THEN LET q == SkipWs(s, k + 1) IN
                           IF At(s, q) = "\""
                           THEN JSONObjectItems(s, q + 1, pairs)
                           ELSE Fail
                      ELSE Fail

scan_once(s, i) ==
    LET c == At(s, i) IN
    IF c = "\"" THEN ScanString(s, i + 1, <<>>)
    ELSE IF c = "{" THEN
        LET j == SkipWs(s, i + 1) IN
        IF At(s, j) = "}" THEN Ok(PyDict(<<>>), j + 1)
        ELSE IF At(s, j) = "\"" THEN JSONObjectItems(s, j + 1, <<>>)
        ELSE Fail
    ELSE IF c = "[" THEN
        LET j == SkipWs(s, i + 1) IN
        IF At(s, j) = "]" THEN Ok(PyList(<<>>), j + 1)
        ELSE JSONArrayItems(s, j, <<>>)
    ELSE IF StartsWith(s, i, <<"n", "u", "l", "l">>) THEN Ok(PyNone, i + 4)
    ELSE IF StartsWith(s, i, <<"t", "r", "u", "e">>) THEN Ok(PyTrue, i + 4)
    ELSE IF StartsWith(s, i, <<"f", "a", "l", "s", "e">>) THEN Ok(PyFalse, i + 5)
    ELSE ScanNumber(s, i)

\* json.loads: ok = FALSE stands for JSONDecodeError
loads(s) ==
    LET r == scan_once(s, SkipWs(s, 1)) IN
    IF r.ok /\ SkipWs(s, r.end) = Len(s) + 1
    THEN [ok |-> TRUE, val |-> r.val]
    ELSE [ok |-> FALSE, val |-> PyNone]

(***************************************************************************)
(* Keys.  MarketDataCache builds "market_data:price:<symbol>" and          *)
(* "market_data:indicators:<symbol>".                                      *)
(***************************************************************************)
MarketPrefix == <<"m", "a", "r", "k", "e", "t", "_", "d", "a", "t", "a">>
PriceKey(symbol) == MarketPrefix \o <<":", "p", "r", "i", "c", "e", ":">> \o symbol
IndicatorsKey(symbol) ==
    MarketPrefix \o <<":", "i", "n", "d", "i", "c", "a", "t", "o", "r", "s", ":">>
                 \o symbol

KeyPA == PriceKey(<<"A">>)
KeyPB == PriceKey(<<"B">>)
KeyPC == PriceKey(<<"C">>)
KeyIA == IndicatorsKey(<<"A">>)

\* keys of direct CacheManager callers
KeyU1 == <<"u", ":", "1">>
KeyU2 == <<"u", ":", "2">>

(***************************************************************************)
(* Bounds of the model.                                                    *)
(***************************************************************************)
MaxTtl == 2      \* largest ttl a caller passes
MaxLen == 1      \* items of a generated list or dict

VARIABLES
    store,   \* the Redis keyspace: key -> entry
    logged,  \* the records the step just taken wrote with logger.error
    ret,     \* what the step just taken returned to its caller
    scan,    \* a clear_pattern between its KEYS call and its DELETE call
    hist,    \* per key, the latest successful set call (value and ttl passed)
    creds,   \* settings.llm: the api key configured per provider
    imported,\* whether config.llm_models was imported (model_manager exists)
    heap,    \* the dict objects: "models" is model_manager._models, "copy"
             \* the one get_available_models handed out last
    snap,    \* which dict object the caller of get_available_models holds
    reply,   \* what the registry step just taken returned to its caller
    lastAdd, \* per id, the config of the latest add_model call
    redis_manager, \* the module's RedisManager and the server it connects to
    reader   \* a dict comprehension over _models between two of its steps

cacheVars == <<store, logged, ret, scan, hist>>
regVars == <<creds, imported, heap, snap, reply, lastAdd>>
vars == <<store, logged, ret, scan, hist, creds, imported, heap, snap, reply,
          lastAdd, redis_manager, reader>>

Absent == [present |-> FALSE, text |-> <<>>, expires |-> FALSE, remaining |-> 0]
NoRet == [op |-> "none", key |-> <<>>, val |-> PyNone, err |-> FALSE, raised |-> FALSE]
NoScan == [active |-> FALSE, pattern |-> <<>>, keys |-> {}, clean |-> TRUE]
NoHist == [written |-> FALSE, val |-> PyNone, ttl |-> PyNone, age |-> 0,
           touched |-> FALSE]

\* Python truthiness, as "if ttl:" and "if keys:" use it
Truthy(v) ==
    CASE v.t = "none" -> FALSE
      [] v.t = "bool" -> v.b
      [] v.t = "int" -> v.n # 0
      [] v.t = "str" -> v.s # <<>>
      [] v.t = "list" -> v.items # <<>>
      [] v.t = "dict" -> v.pairs # <<>>
      [] OTHER -> TRUE

(***************************************************************************)
(* The Redis commands the client sends, on a keyspace st.                  *)
(***************************************************************************)
SET(st, key, text) ==
    [st EXCEPT ![key] = [present |-> TRUE, text |-> text,
                         expires |-> FALSE, remaining |-> 0]]

\* SETEX answers "invalid expire time" for seconds <= 0 (SetexRejects)
SetexRejects(seconds) == seconds <= 0
SETEX(st, key, seconds, text) ==
    [st EXCEPT ![key] = [present |-> TRUE, text |-> text,
                         expires |-> TRUE, remaining |-> seconds]]

DEL(st, keys) == [k \in DOMAIN st |-> IF k \in keys THEN Absent ELSE st[k]]
DelCount(st, keys) == Cardinality({k \in keys : st[k].present})

EXISTS(st, key) == IF st[key].present THEN 1 ELSE 0

\* EXPIRE: 0 on a missing key; a timeout <= 0 deletes the key
EXPIRE(st, key, seconds) ==
    IF ~st[key].present THEN st
    ELSE IF seconds <= 0 THEN DEL(st, {key})
    ELSE [st EXCEPT ![key].expires = TRUE, ![key].remaining = seconds]

TTL(st, key) ==
    IF ~st[key].present THEN -2
    ELSE IF ~st[key].expires THEN -1
    ELSE st[key].remaining

\* glob matching of KEYS: '*' and '?' (patterns hold no '[' and no '\')
RECURSIVE GlobMatch(_, _, _, _)
GlobMatch(p, i, s, j) ==
    IF i > Len(p) THEN j > Len(s)
    ELSE IF p[i] = "*"
    THEN GlobMatch(p, i + 1, s, j) \/ (j <= Len(s) /\ GlobMatch(p, i, s, j + 1))
    ELSE IF j > Len(s) THEN FALSE
    ELSE IF p[i] = "?" \/ p[i] = s[j] THEN GlobMatch(p, i + 1, s, j + 1)
    ELSE FALSE

Matches(pattern, key) == GlobMatch(pattern, 1, key, 1)

\* mutant: the pattern is not passed on (KEYS *)
KeysOfAnyName(st, pattern) == {k \in DOMAIN st : st[k].present}

KEYS(st, pattern) == {k \in DOMAIN st : st[k].present /\ Matches(pattern, k)}

(***************************************************************************)
(* CacheManager: each method as a function of the keyspace, its arguments  *)
(* and whether the client call raises (fail).  The result names the new    *)
(* keyspace, the value returned, whether an exception was caught (err) or  *)
(* left the method (raised), and the records logged.                       *)
(***************************************************************************)
Returned(st, v) ==
    [store |-> st, val |-> v, err |-> FALSE, raised |-> FALSE, logs |-> <<>>]

\* mutant: the except clause logs and re-raises
AbsorbedReraised(st, op, key, default) ==
    [store |-> st, val |-> default, err |-> TRUE, raised |-> TRUE,
     logs |-> <<[level |-> "error", op |-> op, key |-> key]>>]

\* except Exception as e: logger.error(f"... key={key}: {e}"); return default
Absorbed(st, op, key, default) ==
    [store |-> st, val |-> default, err |-> TRUE, raised |-> FALSE,
     logs |-> <<[level |-> "error", op |-> op, key |-> key]>>]

\* the text set() hands to the client
Serialized(value) ==
    IF IsStructured(value) THEN dumps(value)
    ELSE IF value.t = "str" THEN value.s
    ELSE str(value)

set(st, key, value, ttl, fail) ==
    IF IsStructured(value) /\ DumpsRaises(value)
    THEN Absorbed(st, "set", key, PyFalse)
    ELSE IF fail THEN Absorbed(st, "set", key, PyFalse)
    ELSE IF Truthy(ttl)
    THEN IF SetexRejects(ttl.n) THEN Absorbed(st, "set", key, PyFalse)
         ELSE Returned(SETEX(st, key, ttl.n, Serialized(value)), PyTrue)
    ELSE Returned(SET(st, key, Serialized(value)), PyTrue)

\* mutant: the stored text is returned without parsing it
get_unparsed(st, key, fail) ==
    IF fail THEN Absorbed(st, "get", key, PyNone)
    ELSE IF ~st[key].present THEN Returned(st, PyNone)
    ELSE Returned(st, PyStr(st[key].text))

get(st, key, fail) ==
    IF fail THEN Absorbed(st, "get", key, PyNone)
    ELSE IF ~st[key].present THEN Returned(st, PyNone)
    ELSE LET value == st[key].text
             parsed == loads(value)
         IN Returned(st, IF parsed.ok THEN parsed.val ELSE PyStr(value))

delete(st, key, fail) ==
    IF fail THEN Absorbed(st, "delete", key, PyFalse)
    ELSE Returned(DEL(st, {key}), PyBool(DelCount(st, {key}) # 0))

exists(st, key, fail) ==
    IF fail THEN Absorbed(st, "exists", key, PyFalse)
    ELSE Returned(st, PyBool(EXISTS(st, key) # 0))

expire(st, key, ttl, fail) ==
    IF fail THEN Absorbed(st, "expire", key, PyFalse)
    ELSE Returned(EXPIRE(st, key, ttl), PyBool(st[key].present))

\* mutant: a missing key is reported like a key without expiry
get_ttl_clamped(st, key, fail) ==
    IF fail THEN Absorbed(st, "get_ttl", key, PyInt(-2))
    ELSE Returned(st, PyInt(IF TTL(st, key) < -1 THEN -1 ELSE TTL(st, key)))

get_ttl(st, key, fail) ==
    IF fail THEN Absorbed(st, "get_ttl", key, PyInt(-2))
    ELSE Returned(st, PyInt(TTL(st, key)))

\* clear_pattern, first client call: keys = self.client.keys(pattern);
\* the method is done here when the call raises or finds no key ("if keys:")
clear_pattern_keys(st, pattern, fail) ==
    IF fail
    THEN [done |-> TRUE, keys |-> {},
          out |-> Absorbed(st, "clear_pattern", pattern, PyInt(0))]
    ELSE LET keys == KEYS(st, pattern) IN
         [done |-> keys = {}, keys |-> keys, out |-> Returned(st, PyInt(0))]

\* mutant: the DELETE call names every key of the keyspace
clear_pattern_delete_all(st, pattern, keys, fail) ==
    IF fail THEN Absorbed(st, "clear_pattern", pattern, PyInt(0))
    ELSE Returned(DEL(st, DOMAIN st), PyInt(DelCount(st, DOMAIN st)))

\* clear_pattern, second client call: return self.client.delete(*keys)
clear_pattern_delete(st, pattern, keys, fail) ==
    IF fail THEN Absorbed(st, "clear_pattern", pattern, PyInt(0))
    ELSE Returned(DEL(st, keys), PyInt(DelCount(st, keys)))

(***************************************************************************)
(* RedisManager.  redis_client is the handle the manager holds ("none"     *)
(* before the first _connect), closed tells that the handle is not         *)
(* connected, reachable that the server answers, loaded that the import of *)
(* config.redis completed (redis_manager and cache_manager exist).         *)
(***************************************************************************)
\* from_url assigns the handle, ping raises when the server does not answer
_connect(m) ==
    IF m.reachable
    THEN [m |-> [m EXCEPT !.redis_client = "client", !.closed = FALSE],
          raised |-> FALSE]
    ELSE [m |-> [m EXCEPT !.redis_client = "client", !.closed = TRUE],
          raised |-> TRUE]

\* RedisManager.__init__ at import: redis_manager = RedisManager()
RedisManager(reachable) ==
    LET r == _connect([loaded |-> FALSE, redis_client |-> "none",
                       closed |-> FALSE, reachable |-> reachable])
    IN [r.m EXCEPT !.loaded = ~r.raised]

\* "if not self.redis_client: self._connect()"
get_client(m) ==
    IF m.redis_client = "none" THEN _connect(m) ELSE [m |-> m, raised |-> FALSE]

\* "if self.redis_client: self.redis_client.close()"
close(m) == IF m.redis_client # "none" THEN [m EXCEPT !.closed = TRUE] ELSE m

\* the manager holds a handle that is connected
Live(m) == m.redis_client # "none" /\ ~m.closed

\* no dict comprehension is running
NoReader == [active |-> FALSE, op |-> "none", arg |-> "", used |-> 0,
             visited |-> {}, acc |-> <<>>, seen |-> {}, writes |-> 0]

(***************************************************************************)
(* The steps of the cache: one per CacheManager call (clear_pattern takes  *)
(* two, one per client call), and the passing of a second of store time.   *)
(***************************************************************************)
Commit(op, key, out) ==
    /\ store' = out.store
    /\ logged' = out.logs
    /\ ret' = [op |-> op, key |-> key, val |-> out.val,
               err |-> out.err, raised |-> out.raised]

\* a clear_pattern in flight sees another caller's write to the keyspace
Disturbed(st) ==
    IF scan.active /\ st # store THEN [scan EXCEPT !.clean = FALSE] ELSE scan

\* another write (delete, expire, clear_pattern) came after the set call
Forget(keys) ==
    [k \in DOMAIN hist |->
        IF k \in keys THEN [NoHist EXCEPT !.touched = TRUE] ELSE hist[k]]

CallSet(key, value, ttl, fail) ==
    LET out == set(store, key, value, ttl, fail) IN
    /\ Commit("set", key, out)
    /\ hist' = IF out.err \/ out.raised THEN hist
               ELSE [hist EXCEPT ![key] = [written |-> TRUE, val |-> value,
                                           ttl |-> ttl, age |-> 0,
                                           touched |-> TRUE]]
    /\ scan' = Disturbed(out.store)
    /\ UNCHANGED <<regVars, redis_manager, reader>>

CallGet(key, fail) ==
    LET out == get(store, key, fail) IN
    /\ Commit("get", key, out)
    /\ hist' = hist
    /\ scan' = Disturbed(out.store)
    /\ UNCHANGED <<regVars, redis_manager, reader>>

CallDelete(key, fail) ==
    LET out == delete(store, key, fail) IN
    /\ Commit("delete", key, out)
    /\ hist' = IF out.err THEN hist ELSE Forget({key})
    /\ scan' = Disturbed(out.store)
    /\ UNCHANGED <<regVars, redis_manager, reader>>

CallExists(key, fail) ==
    LET out == exists(store, key, fail) IN
    /\ Commit("exists", key, out)
    /\ hist' = hist
    /\ scan' = Disturbed(out.store)
    /\ UNCHANGED <<regVars, redis_manager, reader>>

CallExpire(key, ttl, fail) ==
    LET out == expire(store, key, ttl, fail) IN
    /\ Commit("expire", key, out)
    /\ hist' = IF out.err THEN hist ELSE Forget({key})
    /\ scan' = Disturbed(out.store)
    /\ UNCHANGED <<regVars, redis_manager, reader>>

CallGetTtl(key, fail) ==
    LET out == get_ttl(store, key, fail) IN
    /\ Commit("get_ttl", key, out)
    /\ hist' = hist
    /\ scan' = Disturbed(out.store)
    /\ UNCHANGED <<regVars, redis_manager, reader>>

\* clear_pattern up to and including its KEYS call
ClearPatternKeys(pattern, fail) ==
    LET r == clear_pattern_keys(store, pattern, fail) IN
    /\ ~scan.active
    /\ hist' = hist
    /\ IF r.done
       THEN Commit("clear_pattern", pattern, r.out) /\ scan' = scan
       ELSE /\ scan' = [active |-> TRUE, pattern |-> pattern,
                        keys |-> r.keys, clean |-> TRUE]
            /\ ret' = NoRet
            /\ logged' = <<>>
            /\ store' = store
    /\ UNCHANGED <<regVars, redis_manager, reader>>

\* clear_pattern from its DELETE call to its return
ClearPatternDelete(fail) ==
    /\ scan.active
    /\ LET out == clear_pattern_delete(store, scan.pattern, scan.keys, fail) IN
       /\ Commit("clear_pattern", scan.pattern, out)
       /\ hist' = IF out.err THEN hist ELSE Forget(scan.keys)
    /\ scan' = NoScan
    /\ UNCHANGED <<regVars, redis_manager, reader>>

\* one second of store time: expiries count down, a key at 0 is gone
Elapse(e) ==
    IF e.present /\ e.expires
    THEN IF e.remaining <= 1 THEN Absent ELSE [e EXCEPT !.remaining = @ - 1]
    ELSE e

\* seconds since the set call, counted up to the ttl it passed (to 1 at least)
Older(h) ==
    IF h.written /\ h.ttl # PyNone /\ (h.age < h.ttl.n \/ h.age = 0)
    THEN [h EXCEPT !.age = @ + 1] ELSE h

Tick ==
    /\ store' = [k \in DOMAIN store |-> Elapse(store[k])]
    /\ hist' = [k \in DOMAIN hist |-> Older(hist[k])]
    /\ ret' = NoRet
    /\ logged' = <<>>
    /\ scan' = scan
    /\ UNCHANGED <<regVars, redis_manager, reader>>

(***************************************************************************)
(* LLMModelManager.  A ModelConfig is a record; a dict of configs is a     *)
(* function from ids to configs.  Costs are in 1/10000 dollar per 1000     *)
(* tokens.                                                                 *)
(***************************************************************************)
Providers == {"openai", "deepseek", "anthropic", "local"}
Credentialed == {"openai", "deepseek", "anthropic"}

ModelConfig(provider, model_name, max_tokens, calling, cost) ==
    [provider |-> provider, model_name |-> model_name,
     max_tokens |-> max_tokens, supports_function_calling |-> calling,
     cost_per_1k_tokens |-> cost]

EmptyDict == [id \in {} |-> PyNone]
DictSet(d, id, c) == [i \in DOMAIN d \cup {id} |-> IF i = id THEN c ELSE d[i]]
DictDel(d, id) == [i \in DOMAIN d \ {id} |-> d[i]]
DictUpdate(d, e) ==
    [i \in DOMAIN d \cup DOMAIN e |-> IF i \in DOMAIN e THEN e[i] ELSE d[i]]

\* the fields LLMSettings declares; reading any other attribute of
\* settings.llm raises AttributeError
LLMSettingsFields ==
    {"openai_api_key", "openai_base_url", "deepseek_api_key",
     "deepseek_base_url", "anthropic_api_key", "default_model",
     "max_tokens", "temperature"}

\* what each provider's block of _init_models reads from settings.llm
SettingsRead(provider) ==
    CASE provider = "openai" ->
           {"openai_api_key", "openai_base_url", "default_timeout", "max_retries"}
      [] provider = "deepseek" ->
           {"deepseek_api_key", "deepseek_base_url", "default_timeout", "max_retries"}
      [] provider = "anthropic" ->
           {"anthropic_api_key", "default_timeout", "max_retries"}

\* the variants each provider's block registers
Variants(provider) ==
    CASE provider = "openai" ->
           [id \in {"gpt-4o", "gpt-4o-mini", "o1-preview"} |->
              CASE id = "gpt-4o" -> ModelConfig("openai", "gpt-4o", 4000, TRUE, 300)
                [] id = "gpt-4o-mini" ->
                     ModelConfig("openai", "gpt-4o-mini", 2000, TRUE, 15)
                [] id = "o1-preview" ->
                     ModelConfig("openai", "o1-preview", 8000, FALSE, 1500)]
      [] provider = "deepseek" ->
           [id \in {"deepseek-chat", "deepseek-coder"} |->
              CASE id = "deepseek-chat" ->
                     ModelConfig("deepseek", "deepseek-chat", 4000, TRUE, 20)
                [] id = "deepseek-coder" ->
                     ModelConfig("deepseek", "deepseek-coder", 4000, TRUE, 20)]
      [] provider = "anthropic" ->
           [id \in {"claude-3-sonnet"} |->
              ModelConfig("anthropic", "claude-3-sonnet-20240229", 4000, TRUE, 150)]

\* "if settings.llm.<provider>_api_key:" -- None and "" are false
HasKey(c, provider) == c[provider] = "key"

\* _init_models: the blocks run in the order openai, deepseek, anthropic;
\* a block that reads an undeclared setting raises out of __init__
RECURSIVE InitBlocks(_, _, _)
InitBlocks(c, order, models) ==
    IF order = <<>> THEN [raised |-> FALSE, models |-> models]
    ELSE LET provider == Head(order) IN
         IF ~HasKey(c, provider) THEN InitBlocks(c, Tail(order), models)
         ELSE IF ~(SettingsRead(provider) \subseteq LLMSettingsFields)
         THEN [raised |-> TRUE, models |-> models]
         ELSE InitBlocks(c, Tail(order), DictUpdate(models, Variants(provider)))

_init_models(c) == InitBlocks(c, <<"openai", "deepseek", "anthropic">>, EmptyDict)

get_model(models, model_name) ==
    IF model_name \in DOMAIN models THEN models[model_name] ELSE PyNone

\* mutant: the dict itself is handed out
get_available_models_shared(h) == [heap |-> h, ref |-> "models"]

\* self._models.copy(): a new dict object with the same entries
get_available_models(h) ==
    [heap |-> [h EXCEPT !["copy"] = h["models"]], ref |-> "copy"]

\* mutant: the filter compares the id with the provider's name
get_models_by_provider_name(models, provider) ==
    [name \in {n \in DOMAIN models : n = provider} |-> models[name]]

get_models_by_provider(models, provider) ==
    [name \in {n \in DOMAIN models : models[n].provider = provider} |->
        models[name]]

\* mutant: the config is filed under its own model_name
add_model_by_model_name(models, name, config) ==
    DictSet(models, config.model_name, config)

add_model(models, name, config) == DictSet(models, name, config)

\* mutant: del without the membership test (KeyError on an unknown name)
remove_model_unchecked(models, name) ==
    [models |-> DictDel(models, name), raised |-> name \notin DOMAIN models]

remove_model(models, name) ==
    IF name \in DOMAIN models
    THEN [models |-> DictDel(models, name), raised |-> FALSE]
    ELSE [models |-> models, raised |-> FALSE]

NoReply == [op |-> "none", id |-> "", arg |-> PyNone, val |-> PyNone, raised |-> FALSE]
Reply(op, id, arg, val, raised) ==
    [op |-> op, id |-> id, arg |-> arg, val |-> val, raised |-> raised]

AddModel(name, config) ==
    /\ imported
    /\ heap' = [heap EXCEPT !["models"] = add_model(@, name, config)]
    /\ reply' = Reply("add_model", name, config, PyNone, FALSE)
    /\ lastAdd' = DictSet(lastAdd, name, config)
    /\ UNCHANGED <<creds, imported, snap>>
    /\ UNCHANGED <<cacheVars, redis_manager, reader>>

RemoveModel(name) ==
    LET r == remove_model(heap["models"], name) IN
    /\ imported
    /\ heap' = [heap EXCEPT !["models"] = r.models]
    /\ reply' = Reply("remove_model", name, PyNone, PyNone, r.raised)
    /\ UNCHANGED <<creds, imported, snap, lastAdd>>
    /\ UNCHANGED <<cacheVars, redis_manager, reader>>

GetModel(name) ==
    /\ imported
    /\ reply' = Reply("get_model", name, PyNone, get_model(heap["models"], name), FALSE)
    /\ UNCHANGED <<creds, imported, heap, snap, lastAdd>>
    /\ UNCHANGED <<cacheVars, redis_manager, reader>>

GetAvailableModels ==
    LET r == get_available_models(heap) IN
    /\ imported
    /\ heap' = r.heap
    /\ snap' = r.ref
    /\ reply' = Reply("get_available_models", "", PyNone, r.heap[r.ref], FALSE)
    /\ UNCHANGED <<creds, imported, lastAdd>>
    /\ UNCHANGED <<cacheVars, redis_manager, reader>>

GetModelsByProvider(provider) ==
    /\ imported
    /\ reply' = Reply("get_models_by_provider", provider, PyNone,
                  get_models_by_provider(heap["models"], provider), FALSE)
    /\ UNCHANGED <<creds, imported, heap, snap, lastAdd>>
    /\ UNCHANGED <<cacheVars, redis_manager, reader>>

\* the caller of get_available_models adds an entry to the dict it was given
SnapshotSet(name, config) ==
    /\ imported /\ snap # "none"
    /\ heap' = [heap EXCEPT ![snap] = DictSet(@, name, config)]
    /\ reply' = Reply("snapshot_set", name, config, PyNone, FALSE)
    /\ UNCHANGED <<creds, imported, snap, lastAdd>>
    /\ UNCHANGED <<cacheVars, redis_manager, reader>>

\* ... or deletes one from it
SnapshotDel(name) ==
    /\ imported /\ snap # "none" /\ name \in DOMAIN heap[snap]
    /\ heap' = [heap EXCEPT ![snap] = DictDel(@, name)]
    /\ reply' = Reply("snapshot_del", name, PyNone, PyNone, FALSE)
    /\ UNCHANGED <<creds, imported, snap, lastAdd>>
    /\ UNCHANGED <<cacheVars, redis_manager, reader>>

\* model_manager = LLMModelManager() at import, under the settings c
RegistryInit(c) ==
    LET r == _init_models(c) IN
    /\ creds = c
    /\ imported = ~r.raised
    /\ heap = [d \in {"models", "copy"} |->
                 IF d = "models" /\ ~r.raised THEN r.models ELSE EmptyDict]
    /\ snap = "none"
    /\ reply = NoReply
    /\ lastAdd = EmptyDict
    /\ reader = NoReader

\* no provider has a key configured
NoCreds == [p \in Credentialed |-> "none"]

\* an empty keyspace; keys are the keys the callers of the run use
KeyspaceInit(keys) ==
    /\ store = [k \in keys |-> Absent]
    /\ logged = <<>>
    /\ ret = NoRet
    /\ scan = NoScan
    /\ hist = [k \in keys |-> NoHist]

\* ... behind a manager that connected at import
CacheInit(keys) == KeyspaceInit(keys) /\ redis_manager = RedisManager(TRUE)

TtlArgs == {PyNone} \cup {PyInt(n) : n \in -1..MaxTtl}

CacheNext(keys, values, ttls, seconds, patterns, fails) ==
    \/ \E k \in keys, v \in values, t \in ttls, f \in fails : CallSet(k, v, t, f)
    \/ \E k \in keys, f \in fails : CallGet(k, f)
    \/ \E k \in keys, f \in fails : CallDelete(k, f)
    \/ \E k \in keys, f \in fails : CallExists(k, f)
    \/ \E k \in keys, n \in seconds, f \in fails : CallExpire(k, n, f)
    \/ \E k \in keys, f \in fails : CallGetTtl(k, f)
    \/ \E p \in patterns, f \in fails : ClearPatternKeys(p, f)
    \/ \E f \in fails : ClearPatternDelete(f)
    \/ Tick

(***************************************************************************)
(* Spec: every CacheManager method, with client calls that may raise.      *)
(***************************************************************************)
SampleRecord ==
    PyDict(<< <<PyStr(<<"a">>), PyInt(1)>>,
              <<PyStr(<<"b">>), PyList(<<PyInt(1), PyInt(2), PyInt(3)>>)>> >>)
NullText == PyStr(<<"n", "u", "l", "l">>)
Star == <<"*">>
PricePattern == PriceKey(Star)

Keys == {KeyU1, KeyU2}
Values == {SampleRecord, PyList(<<PyObj>>), NullText}
Patterns == {Star}

Init == CacheInit(Keys) /\ RegistryInit(NoCreds)
Next == CacheNext(Keys, Values, {PyNone, PyInt(MaxTtl)}, {MaxTtl}, Patterns, BOOLEAN)
Spec == Init /\ [][Next]_vars

\* the result each method gives when the store call fails
SafeDefault(op) ==
    CASE op \in {"set", "delete", "exists", "expire"} -> PyFalse
      [] op = "get" -> PyNone
      [] op = "get_ttl" -> PyInt(-2)
      [] op = "clear_pattern" -> PyInt(0)

\* C1: no CacheManager method raises to its caller; a call whose store call
\* failed returns false (set, delete, exists, expire), absent (get), -2
\* (get_ttl) or 0 (clear_pattern) and writes one log record naming the
\* operation's key or pattern.
C1_FailuresAbsorbed ==
    /\ ~ret.raised
    /\ ret.err =>
          /\ ret.val = SafeDefault(ret.op)
          /\ Len(logged) = 1
          /\ logged[1].key = ret.key
          /\ logged[1].op = ret.op

\* a get of a key that holds a value fails in transport and returns absent
C1_Witness ==
    /\ ret.op = "get" /\ ret.err
    /\ store[ret.key].present
    /\ ret.val = PyNone /\ logged # <<>>

\* C3: get returns absent only when the store has no value for the key: a
\* get that did not fail, of a key that holds a text, returns a value.
C3_AbsentOnlyWhenMissing ==
    (ret.op = "get" /\ ~ret.err /\ store[ret.key].present) => ret.val # PyNone

(***************************************************************************)
(* TtlSpec: one value, every ttl argument, expire with every timeout.      *)
(***************************************************************************)
TtlNext == CacheNext(Keys, {PyInt(7)}, TtlArgs, 0..MaxTtl, {Star}, BOOLEAN)
TtlSpec == Init /\ [][TtlNext]_vars

\* C4: a set that passes a ttl stores the key with that expiry: the key
\* exists right after the set with ttl seconds to live, it is gone (exists
\* false, ttl -2) once ttl seconds have passed without another write, and a
\* key is without expiry only when set was called with no ttl.
C4_TtlOnWrite ==
    /\ (ret.op = "set" /\ ~ret.err /\ hist[ret.key].ttl # PyNone) =>
          /\ EXISTS(store, ret.key) = 1
          /\ TTL(store, ret.key) = hist[ret.key].ttl.n
    /\ \A k \in DOMAIN store :
          LET h == hist[k] IN
          /\ (h.written /\ h.ttl # PyNone /\ h.age > 0 /\ h.age >= h.ttl.n) =>
                (EXISTS(store, k) = 0 /\ TTL(store, k) = -2)
          /\ (h.written /\ TTL(store, k) = -1) => h.ttl = PyNone

\* C5: get_ttl returns -2 for a key that does not exist (never set, deleted
\* or expired), -1 for a key that exists without expiry (as after a set
\* with no ttl), and otherwise the remaining seconds, which are >= 0.
C5_TtlSentinels ==
    (ret.op = "get_ttl" /\ ~ret.err) =>
        LET e == store[ret.key]
            h == hist[ret.key]
        IN /\ ~e.present => ret.val = PyInt(-2)
           /\ (e.present /\ ~e.expires) => ret.val = PyInt(-1)
           /\ (e.present /\ e.expires) =>
                 (ret.val = PyInt(e.remaining) /\ ret.val.n >= 0)
           /\ ~h.touched => ret.val = PyInt(-2)
           /\ (h.written /\ h.ttl = PyNone) => ret.val = PyInt(-1)
           /\ (h.written /\ Truthy(h.ttl)) =>
                 ret.val = PyInt(IF h.age < h.ttl.n THEN h.ttl.n - h.age ELSE -2)

\* get_ttl answers with the seconds left of a key that was set with a ttl
\* and has aged by a second
C5_Witness ==
    /\ ret.op = "get_ttl" /\ ~ret.err
    /\ hist[ret.key].written /\ hist[ret.key].age = 1
    /\ ret.val = PyInt(MaxTtl - 1)

(***************************************************************************)
(* RoundTripSpec: one key per run, lists and dicts of up to MaxLen items,   *)
(* and those of at most one item nested once more; the calls are set, get  *)
(* and delete, and store time passes.                                      *)
(***************************************************************************)
Scalars == {PyNone, PyTrue, PyInt(12), PyStr(<<"a", "\"">>)}
DictKeys == {PyStr(<<"a">>), PyInt(1)}

SeqsUpTo(S, n) == UNION {[1..m -> S] : m \in 0..n}
Lists(S) == {PyList(q) : q \in SeqsUpTo(S, MaxLen)}
Dicts(S) ==
    {PyDict(q) : q \in {p \in SeqsUpTo(DictKeys \X S, MaxLen) :
                           \A i, j \in 1..Len(p) : p[i][1] = p[j][1] => i = j}}
Flat == Lists(Scalars) \cup Dicts(Scalars)
Size(v) == IF v.t = "list" THEN Len(v.items) ELSE Len(v.pairs)
Small == {v \in Flat : Size(v) <= 1}
Nested == {PyList(<<v>>) : v \in Small}
          \cup {PyDict(<< <<PyStr(<<"b">>), v>> >>) : v \in Small}
StructuredValues == Flat \cup Nested \cup {SampleRecord}

RoundTripKeys == {KeyU1, KeyPA}
RoundTripInit ==
    /\ \E k \in RoundTripKeys : CacheInit({k})
    /\ RegistryInit(NoCreds)
RoundTripNext ==
    \/ \E k \in DOMAIN store, v \in StructuredValues,
          t \in {PyNone, PyInt(MaxTtl)}, f \in BOOLEAN : CallSet(k, v, t, f)
    \/ \E k \in DOMAIN store, f \in BOOLEAN : CallGet(k, f)
    \/ \E k \in DOMAIN store, f \in BOOLEAN : CallDelete(k, f)
    \/ Tick
RoundTripSpec == RoundTripInit /\ [][RoundTripNext]_vars

\* the set call's ttl has run out
Expired(h) == Truthy(h.ttl) /\ h.age >= h.ttl.n

\* a get that follows a set of a structured value, nothing having written,
\* deleted or expired the key in between
GetAfterSet(r, h) ==
    /\ r.op = "get" /\ ~r.err
    /\ h.written /\ IsStructured(h.val) /\ ~Expired(h)

\* C2 as claimed: after set(key, v) with v a dict or list, a get(key) with
\* no write, delete or expiry of the key in between returns a value equal to
\* v, and get leaves the store as it was.
C2_RoundTrip ==
    [][ret'.op = "get" =>
          /\ store' = store
          /\ GetAfterSet(ret', hist'[ret'.key]) =>
                PyEq(ret'.val, hist'[ret'.key].val)]_vars

\* values made of dicts with str keys, lists, str, int, bool and None
RECURSIVE JsonShaped(_)
JsonShaped(v) ==
    CASE v.t = "list" -> \A i \in 1..Len(v.items) : JsonShaped(v.items[i])
      [] v.t = "dict" -> \A i \in 1..Len(v.pairs) :
                            /\ v.pairs[i][1].t = "str"
                            /\ JsonShaped(v.pairs[i][2])
      [] OTHER -> v.t \in {"none", "bool", "int", "str"}

\* C2, amended: the round trip holds for the structured values whose dicts
\* have str keys only (and whose leaves are str, int, bool or None); get
\* leaves the store as it was.
C2_RoundTripJsonShaped ==
    [][ret'.op = "get" =>
          /\ store' = store
          /\ (GetAfterSet(ret', hist'[ret'.key]) /\ JsonShaped(hist'[ret'.key].val))
                => PyEq(ret'.val, hist'[ret'.key].val)]_vars

\* a nested record with a str that needs escaping came back equal
C2_Witness ==
    /\ GetAfterSet(ret, hist[ret.key])
    /\ hist[ret.key].val =
          PyDict(<< <<PyStr(<<"b">>),
                      PyDict(<< <<PyStr(<<"a">>), PyStr(<<"a", "\"">>)>> >>)>> >>)
    /\ ret.val = hist[ret.key].val

(***************************************************************************)
(* ClearSpec: three price keys and an indicators key, written by set and   *)
(* cleared by clear_pattern, whose two client calls other calls and the    *)
(* store's clock may come between.                                         *)
(***************************************************************************)
ClearKeys == {KeyPA, KeyPB, KeyPC, KeyIA}
ClearPatterns ==
    {PricePattern, Star, IndicatorsKey(<<"?">>), KeyPB, PriceKey(<<"Z">>)}

ClearInit == CacheInit(ClearKeys) /\ RegistryInit(NoCreds)
ClearNext ==
    \/ \E k \in ClearKeys, t \in {PyNone, PyInt(1)}, f \in BOOLEAN :
          CallSet(k, PyInt(7), t, f)
    \/ \E p \in ClearPatterns, f \in BOOLEAN : ClearPatternKeys(p, f)
    \/ \E f \in BOOLEAN : ClearPatternDelete(f)
    \/ Tick
ClearSpec == ClearInit /\ [][ClearNext]_vars

\* C6: a clear_pattern(p) that did not fail and that no other caller's write
\* came into leaves no key that matches p, leaves every other key with its
\* value and expiry, and returns the number of keys it deleted (0 when no
\* key matched).
C6_ClearPattern ==
    [][(ret'.op = "clear_pattern" /\ ~ret'.err /\ scan.clean) =>
          LET p == ret'.key IN
          /\ \A k \in DOMAIN store :
                IF Matches(p, k) THEN ~store'[k].present
                ELSE store'[k] = store[k]
          /\ ret'.val = PyInt(Cardinality({k \in DOMAIN store :
                                    store[k].present /\ ~store'[k].present}))
          /\ KEYS(store, p) = {} => ret'.val = PyInt(0)]_vars

\* clear_pattern("market_data:price:*") deleted three price keys and the
\* indicators key is still there
C6_Witness ==
    /\ ret.op = "clear_pattern" /\ ret.key = PricePattern /\ ~ret.err
    /\ ret.val = PyInt(3)
    /\ store[KeyIA].present
    /\ \A k \in {KeyPA, KeyPB, KeyPC} : ~store[k].present
(***************************************************************************)
(* RegistrySpec: the registry as imported under every setting of the three *)
(* api keys (unset, empty, set), then add_model, remove_model and the      *)
(* reads, with a caller that edits the dict get_available_models gave it.  *)
(***************************************************************************)
CredValues == {"none", "empty", "key"}

Claude3Sonnet == Variants("anthropic")["claude-3-sonnet"]
Llama3 == ModelConfig("local", "llama3", 2000, FALSE, 0)

ModelIds == {"gpt-4o", "claude-3-sonnet", "llama3"}
Configs == {Claude3Sonnet, Llama3}

RegistryInitAny ==
    /\ CacheInit({KeyU1})
    /\ \E c \in [Credentialed -> CredValues] : RegistryInit(c)

RegistryNext ==
    \/ \E id \in ModelIds, c \in Configs : AddModel(id, c)
    \/ \E id \in ModelIds : RemoveModel(id)
    \/ \E id \in ModelIds : GetModel(id)
    \/ GetAvailableModels
    \/ \E p \in Providers : GetModelsByProvider(p)
    \/ \E id \in ModelIds : SnapshotSet(id, Llama3)
    \/ \E id \in ModelIds : SnapshotDel(id)

RegistrySpec == RegistryInitAny /\ [][RegistryNext]_vars

Reads(h) ==
    [get_model |-> [id \in ModelIds |-> get_model(h["models"], id)],
     get_available_models |->
        LET r == get_available_models(h) IN r.heap[r.ref],
     get_models_by_provider |->
        [p \in Providers |-> get_models_by_provider(h["models"], p)]]

\* C8: the dict get_available_models returns is a copy: add_model and
\* remove_model leave a dict returned earlier as it is, and a caller's
\* adding or deleting entries of the dict it got leaves every read of the
\* registry as it was.
C8_DefensiveCopy ==
    [][/\ (reply'.op = "get_available_models") =>
             (reply'.val = heap["models"] /\ heap'["models"] = heap["models"])
       /\ (reply'.op \in {"add_model", "remove_model"} /\ snap # "none") =>
             heap'[snap'] = heap[snap]
       /\ (reply'.op \in {"snapshot_set", "snapshot_del"}) =>
             Reads(heap') = Reads(heap)]_vars

\* the caller still holds the empty dict it got although an id has been
\* registered since, and has just added an entry of its own to it
C8_Witness ==
    /\ reply.op = "snapshot_set" /\ snap # "none"
    /\ DOMAIN heap[snap] = {"llama3"}
    /\ DOMAIN heap["models"] = {"gpt-4o"}

\* C9: add_model(id, c) registers c under id, replacing the config id had;
\* remove_model(id) unregisters id and does nothing (and does not raise) when
\* id is not registered; neither call touches another id.
C9_AddRemove ==
    [][/\ reply'.op = "add_model" =>
             /\ get_model(heap'["models"], reply'.id) = reply'.arg
             /\ \A id \in ModelIds \ {reply'.id} :
                   get_model(heap'["models"], id) = get_model(heap["models"], id)
             /\ DOMAIN heap'["models"] = DOMAIN heap["models"] \cup {reply'.id}
       /\ reply'.op = "remove_model" =>
             /\ ~reply'.raised
             /\ get_model(heap'["models"], reply'.id) = PyNone
             /\ \A id \in ModelIds \ {reply'.id} :
                   get_model(heap'["models"], id) = get_model(heap["models"], id)
             /\ DOMAIN heap'["models"] = DOMAIN heap["models"] \ {reply'.id}
             /\ reply'.id \notin DOMAIN heap["models"] => heap' = heap]_vars

\* an id whose config was replaced by a second add_model has just been
\* removed, and another id is still registered
C9_Witness ==
    /\ reply.op = "remove_model" /\ reply.id = "gpt-4o"
    /\ "gpt-4o" \in DOMAIN lastAdd /\ lastAdd["gpt-4o"] = Llama3
    /\ DOMAIN heap["models"] = {"llama3"}

\* C10: get_models_by_provider(p) returns the entries of
\* get_available_models whose config has provider p, and only those.
C10_ByProvider ==
    reply.op = "get_models_by_provider" =>
        LET all == heap["models"]
            p == reply.id
        IN /\ DOMAIN reply.val = {id \in DOMAIN all : all[id].provider = p}
           /\ \A id \in DOMAIN reply.val : reply.val[id] = all[id]

\* of three registered ids, the one whose config is of the provider asked
\* for is returned, under an id that is not the config's model_name
C10_Witness ==
    /\ reply.op = "get_models_by_provider" /\ reply.id = "anthropic"
    /\ DOMAIN heap["models"] = ModelIds
    /\ DOMAIN reply.val = {"gpt-4o"}
    /\ reply.val["gpt-4o"] = Claude3Sonnet

(***************************************************************************)
(* FunctionsSpec: the module-level functions get_agent_model and           *)
(* estimate_cost, called in every registry that add_model and remove_model *)
(* reach.  A float is an exact fraction num/den.                           *)
(***************************************************************************)
AGENT_MODEL_MAPPING ==
    [role \in {"fundamental_analyst", "technical_analyst", "sentiment_analyst",
               "news_analyst", "bullish_researcher", "bearish_researcher",
               "debate_facilitator", "trader", "risky_analyst",
               "neutral_analyst", "safe_analyst", "risk_facilitator",
               "fund_manager"} |->
        CASE role \in {"sentiment_analyst", "news_analyst"} -> "gpt-4o-mini"
          [] role \in {"bullish_researcher", "bearish_researcher",
                       "fund_manager"} -> "o1-preview"
          [] OTHER -> "gpt-4o"]

\* mutant: a role that is not in the table gets the empty string
get_agent_model_or_empty(agent_role) ==
    IF agent_role \in DOMAIN AGENT_MODEL_MAPPING
    THEN AGENT_MODEL_MAPPING[agent_role] ELSE ""

\* AGENT_MODEL_MAPPING.get(agent_role, "gpt-4o-mini")
get_agent_model(agent_role) ==
    IF agent_role \in DOMAIN AGENT_MODEL_MAPPING
    THEN AGENT_MODEL_MAPPING[agent_role] ELSE "gpt-4o-mini"

\* the unit ModelConfig's cost_per_1k_tokens is counted in: 1/CostScale dollar
CostScale == 10000

RECURSIVE GCD(_, _)
GCD(a, b) == IF b = 0 THEN a ELSE GCD(b, a % b)

\* a fraction in lowest terms
Float(num, den) ==
    LET g == GCD(num, den) IN [num |-> num \div g, den |-> den \div g]
FloatEq(x, y) == x.num * y.den = y.num * x.den
FloatMul(x, y) == Float(x.num * y.num, x.den * y.den)
Rate(config) == Float(config.cost_per_1k_tokens, CostScale)

\* mutant: the token count is not divided by 1000
estimate_cost_per_token(models, model_name, token_count) ==
    LET config == get_model(models, model_name) IN
    IF config = PyNone THEN Float(0, 1)
    ELSE FloatMul(Float(token_count, 1), Rate(config))

estimate_cost(models, model_name, token_count) ==
    LET config == get_model(models, model_name) IN
    IF config = PyNone THEN Float(0, 1)
    ELSE FloatMul(Float(token_count, 1000), Rate(config))

GetAgentModel(agent_role) ==
    /\ imported
    /\ reply' = Reply("get_agent_model", agent_role, PyNone,
                      get_agent_model(agent_role), FALSE)
    /\ UNCHANGED <<creds, imported, heap, snap, lastAdd>>
    /\ UNCHANGED <<cacheVars, redis_manager, reader>>

EstimateCost(model_name, token_count) ==
    /\ imported
    /\ reply' = Reply("estimate_cost", model_name, token_count,
                      estimate_cost(heap["models"], model_name, token_count),
                      FALSE)
    /\ UNCHANGED <<creds, imported, heap, snap, lastAdd>>
    /\ UNCHANGED <<cacheVars, redis_manager, reader>>

Roles == DOMAIN AGENT_MODEL_MAPPING \cup {"", "Trader", "portfolio_manager"}
TokenCounts == {0, 1, 500, 1000, 2000}

FunctionsInit == CacheInit({KeyU1}) /\ RegistryInit(NoCreds)
FunctionsNext ==
    \/ \E id \in ModelIds, c \in Configs : AddModel(id, c)
    \/ \E id \in ModelIds : RemoveModel(id)
    \/ \E role \in Roles : GetAgentModel(role)
    \/ \E id \in ModelIds, n \in TokenCounts : EstimateCost(id, n)
FunctionsSpec == FunctionsInit /\ [][FunctionsNext]_vars

\* C11: get_agent_model returns, for every role string and in every
\* registry state, a non-empty model id without failing: the table's entry
\* for a role of the table, "gpt-4o-mini" for every other string.
C11_ModelForRole ==
    reply.op = "get_agent_model" =>
        /\ ~reply.raised
        /\ reply.val # ""
        /\ reply.id \in DOMAIN AGENT_MODEL_MAPPING =>
              reply.val = AGENT_MODEL_MAPPING[reply.id]
        /\ reply.id \notin DOMAIN AGENT_MODEL_MAPPING => reply.val = "gpt-4o-mini"

\* a role outside the table gets the default id while the registry holds
\* other ids only
C11_Witness ==
    /\ reply.op = "get_agent_model" /\ reply.id = "portfolio_manager"
    /\ reply.val = "gpt-4o-mini"
    /\ heap["models"] # EmptyDict
    /\ reply.val \notin DOMAIN heap["models"]

\* C12: estimate_cost is 0 for an id that is not registered; for a
\* registered id it is (n / 1000) times the cost_per_1k_tokens of the config
\* now registered under the id, so it is the rate for n = 1000 and twice the
\* cost of 1000 tokens for n = 2000.
C12_EstimateCost ==
    /\ reply.op = "estimate_cost" =>
          LET models == heap["models"]
              id == reply.id
              n == reply.arg
          IN /\ id \notin DOMAIN models => (reply.val.num = 0 /\ reply.val.den # 0)
             /\ id \in DOMAIN models =>
                   /\ reply.val.num * 1000 * CostScale
                         = n * models[id].cost_per_1k_tokens * reply.val.den
                   /\ n = 1000 => FloatEq(reply.val, Rate(models[id]))
    /\ \A id \in ModelIds :
          LET one == estimate_cost(heap["models"], id, 1000)
              two == estimate_cost(heap["models"], id, 2000)
          IN FloatEq(two, Float(2 * one.num, one.den))

\* the cost of 2000 tokens of an id that was registered with one rate and
\* then with another: twice the rate now registered
C12_Witness ==
    /\ reply.op = "estimate_cost" /\ reply.id = "llama3" /\ reply.arg = 2000
    /\ "llama3" \in DOMAIN heap["models"]
    /\ heap["models"]["llama3"] = Claude3Sonnet
    /\ FloatEq(reply.val, Float(300, CostScale))

(***************************************************************************)
(* DomainSpec: MarketDataCache and AnalysisCache, called with their        *)
(* default ttl for two symbols and one analyst type.                       *)
(***************************************************************************)
PriceTtl == 300
IndicatorsTtl == 600
AnalysisTtl == 1800

AnalysisPrefix == <<"a", "n", "a", "l", "y", "s", "i", "s">>
AnalysisKey(symbol, analyst_type) ==
    AnalysisPrefix \o <<":">> \o analyst_type \o <<":">> \o symbol

\* mutant: the price is filed under the indicators key
set_stock_price_as_indicators(st, symbol, data, ttl, fail) ==
    set(st, IndicatorsKey(symbol), data, ttl, fail)

set_stock_price(st, symbol, data, ttl, fail) ==
    set(st, PriceKey(symbol), data, ttl, fail)
get_stock_price(st, symbol, fail) == get(st, PriceKey(symbol), fail)

set_technical_indicators(st, symbol, indicators, ttl, fail) ==
    set(st, IndicatorsKey(symbol), indicators, ttl, fail)
get_technical_indicators(st, symbol, fail) == get(st, IndicatorsKey(symbol), fail)

set_analysis_result(st, symbol, analyst_type, result, ttl, fail) ==
    set(st, AnalysisKey(symbol, analyst_type), result, ttl, fail)
get_analysis_result(st, symbol, analyst_type, fail) ==
    get(st, AnalysisKey(symbol, analyst_type), fail)

\* the step of an accessor that called self.cache.set(key, value, ttl)
Delegated(op, key, value, ttl, out) ==
    /\ Commit(op, key, out)
    /\ hist' = IF out.err \/ out.raised THEN hist
               ELSE [hist EXCEPT ![key] = [written |-> TRUE, val |-> value,
                                           ttl |-> ttl, age |-> 0,
                                           touched |-> TRUE]]
    /\ scan' = Disturbed(out.store)
    /\ UNCHANGED <<regVars, redis_manager, reader>>

\* the step of an accessor that called self.cache.get(key)
Looked(op, key, out) ==
    /\ Commit(op, key, out)
    /\ hist' = hist
    /\ scan' = Disturbed(out.store)
    /\ UNCHANGED <<regVars, redis_manager, reader>>

SetStockPrice(symbol, data, fail) ==
    Delegated("set_stock_price", PriceKey(symbol), data, PyInt(PriceTtl),
              set_stock_price(store, symbol, data, PyInt(PriceTtl), fail))

GetStockPrice(symbol, fail) ==
    Looked("get_stock_price", PriceKey(symbol),
           get_stock_price(store, symbol, fail))

SetTechnicalIndicators(symbol, indicators, fail) ==
    Delegated("set_technical_indicators", IndicatorsKey(symbol), indicators,
              PyInt(IndicatorsTtl),
              set_technical_indicators(store, symbol, indicators,
                                       PyInt(IndicatorsTtl), fail))

GetTechnicalIndicators(symbol, fail) ==
    Looked("get_technical_indicators", IndicatorsKey(symbol),
           get_technical_indicators(store, symbol, fail))

SetAnalysisResult(symbol, analyst_type, result, fail) ==
    Delegated("set_analysis_result", AnalysisKey(symbol, analyst_type), result,
              PyInt(AnalysisTtl),
              set_analysis_result(store, symbol, analyst_type, result,
                                  PyInt(AnalysisTtl), fail))

GetAnalysisResult(symbol, analyst_type, fail) ==
    Looked("get_analysis_result", AnalysisKey(symbol, analyst_type),
           get_analysis_result(store, symbol, analyst_type, fail))

DomainNext(symbols, analyst_types, data) ==
    \/ \E s \in symbols, d \in data, f \in BOOLEAN : SetStockPrice(s, d, f)
    \/ \E s \in symbols, f \in BOOLEAN : GetStockPrice(s, f)
    \/ \E s \in symbols, d \in data, f \in BOOLEAN : SetTechnicalIndicators(s, d, f)
    \/ \E s \in symbols, f \in BOOLEAN : GetTechnicalIndicators(s, f)
    \/ \E s \in symbols, a \in analyst_types, d \in data, f \in BOOLEAN :
          SetAnalysisResult(s, a, d, f)
    \/ \E s \in symbols, a \in analyst_types, f \in BOOLEAN :
          GetAnalysisResult(s, a, f)

\* the keys the accessors address for the symbols and analyst types
DomainKeys(symbols, analyst_types) ==
    {PriceKey(s) : s \in symbols} \cup {IndicatorsKey(s) : s \in symbols}
    \cup {AnalysisKey(s, a) : s \in symbols, a \in analyst_types}

AAPL == <<"A", "A", "P", "L">>
Symbols == {AAPL, <<"B">>}
AnalystTypes == {<<"t", "e", "c", "h">>}
ClosePrice == PyDict(<< <<PyStr(<<"c", "l", "o", "s", "e">>), PyInt(190)>> >>)
Data == {ClosePrice, PyDict(<<>>)}

DomainInit == CacheInit(DomainKeys(Symbols, AnalystTypes)) /\ RegistryInit(NoCreds)
DomainSpec == DomainInit /\ [][DomainNext(Symbols, AnalystTypes, Data)]_vars

\* C13: each accessor acts as the CacheManager call on its fixed key with
\* its default ttl (price 300, indicators 600, analysis 1800), each getter
\* reads the key its setter writes; a price that was set comes back and
\* indicators that were never set are absent.
C13_Delegation ==
    [][/\ \A s \in Symbols, d \in Data, f \in BOOLEAN :
            LET price == <<"m", "a", "r", "k", "e", "t", "_", "d", "a", "t", "a",
                           ":", "p", "r", "i", "c", "e", ":">> \o s
                inds == <<"m", "a", "r", "k", "e", "t", "_", "d", "a", "t", "a",
                          ":", "i", "n", "d", "i", "c", "a", "t", "o", "r", "s",
                          ":">> \o s
            IN /\ (ret'.op = "set_stock_price" /\ SetStockPrice(s, d, f)) =>
                     LET r == set(store, price, d, PyInt(300), f) IN
                     store' = r.store /\ ret'.val = r.val /\ logged' = r.logs
               /\ (ret'.op = "set_technical_indicators" /\ SetTechnicalIndicators(s, d, f)) =>
                     LET r == set(store, inds, d, PyInt(600), f) IN
                     store' = r.store /\ ret'.val = r.val /\ logged' = r.logs
               /\ (ret'.op = "get_stock_price" /\ GetStockPrice(s, f)) =>
                     LET r == get(store, price, f) IN
                     store' = store /\ ret'.val = r.val /\ logged' = r.logs
               /\ (ret'.op = "get_technical_indicators" /\ GetTechnicalIndicators(s, f)) =>
                     LET r == get(store, inds, f) IN
                     store' = store /\ ret'.val = r.val /\ logged' = r.logs
               /\ \A a \in AnalystTypes :
                     LET key == <<"a", "n", "a", "l", "y", "s", "i", "s", ":">>
                                   \o a \o <<":">> \o s
                     IN /\ (ret'.op = "set_analysis_result" /\ SetAnalysisResult(s, a, d, f)) =>
                              LET r == set(store, key, d, PyInt(1800), f) IN
                              store' = r.store /\ ret'.val = r.val
                              /\ logged' = r.logs
                        /\ (ret'.op = "get_analysis_result" /\ GetAnalysisResult(s, a, f)) =>
                              LET r == get(store, key, f) IN
                              store' = store /\ ret'.val = r.val
                              /\ logged' = r.logs
       /\ (ret'.op \in {"get_stock_price", "get_technical_indicators",
                        "get_analysis_result"} /\ ~ret'.err) =>
             LET h == hist[ret'.key] IN
             /\ h.written => PyEq(ret'.val, h.val)
             /\ ~h.touched => ret'.val = PyNone]_vars

\* the price of AAPL is set and its indicators never were: the indicators
\* getter has just returned absent
C13_Witness ==
    /\ ret.op = "get_technical_indicators" /\ ~ret.err /\ ret.val = PyNone
    /\ ret.key = IndicatorsKey(AAPL)
    /\ hist[PriceKey(AAPL)].written /\ hist[PriceKey(AAPL)].val = ClosePrice
    /\ TTL(store, PriceKey(AAPL)) = 300
    /\ ~hist[IndicatorsKey(AAPL)].touched

\* C14: right after initialization the registered ids are those of the
\* variants of the providers whose api key is non-empty (openai: gpt-4o,
\* gpt-4o-mini, o1-preview; deepseek: deepseek-chat, deepseek-coder;
\* anthropic: claude-3-sonnet), and no others.
C14_InitByCredential ==
    reply = NoReply =>
        /\ imported
        /\ DOMAIN heap["models"] =
              (IF creds["openai"] = "key"
               THEN {"gpt-4o", "gpt-4o-mini", "o1-preview"} ELSE {})
              \cup (IF creds["deepseek"] = "key"
                    THEN {"deepseek-chat", "deepseek-coder"} ELSE {})
              \cup (IF creds["anthropic"] = "key" THEN {"claude-3-sonnet"} ELSE {})

\* C19: after set(key, s) with s a text, a get(key) with no write, delete or
\* expiry of the key in between returns the text s.
C19_TextRoundTrip ==
    LET h == hist[ret.key] IN
    (ret.op = "get" /\ ~ret.err /\ h.written /\ h.val.t = "str" /\ ~Expired(h))
        => ret.val = h.val

\* C17: clear_pattern is a KEYS call and then one DEL call, with other
\* callers' steps possible in between: it never deletes a key that does not
\* match the pattern, it leaves every key it did not enumerate as it is, and
\* the count it returns is at most the number of keys it enumerated.  (That a
\* matching key set after the KEYS call survives is the witness.)
C17_ClearNotAtomic ==
    [][ret'.op = "clear_pattern" =>
          IF scan.active
          THEN /\ ret'.key = scan.pattern
               /\ \A k \in DOMAIN store :
                     /\ (store[k].present /\ ~store'[k].present) =>
                           (Matches(scan.pattern, k) /\ k \in scan.keys)
                     /\ k \notin scan.keys => store'[k] = store[k]
               /\ ret'.val.n <= Cardinality(scan.keys)
          ELSE store' = store /\ ret'.val = PyInt(0)]_vars

\* two price keys were enumerated, a third was set by another caller before
\* the DEL call: clear_pattern returns 2 and the third key exists
C17_Witness ==
    /\ ret.op = "clear_pattern" /\ ret.key = PricePattern /\ ~ret.err
    /\ ret.val = PyInt(2)
    /\ ~store[KeyPA].present /\ ~store[KeyPB].present
    /\ store[KeyPC].present /\ Matches(PricePattern, KeyPC)

(***************************************************************************)
(* KeySpec: the accessors called with symbols and analyst types that       *)
(* contain the separator ":".                                              *)
(***************************************************************************)
SeparatorSymbols == {<<"c">>, <<"b", ":", "c">>}
SeparatorAnalystTypes == {<<"a">>, <<"a", ":", "b">>}

KeyInit ==
    /\ CacheInit(DomainKeys(SeparatorSymbols, SeparatorAnalystTypes))
    /\ RegistryInit(NoCreds)
KeySpec ==
    KeyInit /\ [][DomainNext(SeparatorSymbols, SeparatorAnalystTypes, {ClosePrice})]_vars

\* what a call addresses: its kind, its symbol and, for an analysis result,
\* its analyst type
Addresses ==
    {[kind |-> k, symbol |-> s, analyst_type |-> <<>>] :
        k \in {"price", "indicators"}, s \in SeparatorSymbols}
    \cup {[kind |-> "analysis", symbol |-> s, analyst_type |-> a] :
            s \in SeparatorSymbols, a \in SeparatorAnalystTypes}

\* the key an accessor builds for an address
KeyOf(x) ==
    CASE x.kind = "price" -> PriceKey(x.symbol)
      [] x.kind = "indicators" -> IndicatorsKey(x.symbol)
      [] x.kind = "analysis" -> AnalysisKey(x.symbol, x.analyst_type)

\* what the getter of an address returns
Reading(st, x) ==
    CASE x.kind = "price" -> get_stock_price(st, x.symbol, FALSE).val
      [] x.kind = "indicators" -> get_technical_indicators(st, x.symbol, FALSE).val
      [] x.kind = "analysis" ->
           get_analysis_result(st, x.symbol, x.analyst_type, FALSE).val

\* C18: two accessor calls address the same key only if they are of the same
\* kind with the same symbol and (for analysis results) the same analyst
\* type, so a setter changes what no getter of another kind, symbol or
\* analyst type returns.
C18_NoKeyCollision ==
    [][\A x \in Addresses :
          (/\ ret'.op = CASE x.kind = "price" -> "set_stock_price"
                          [] x.kind = "indicators" -> "set_technical_indicators"
                          [] x.kind = "analysis" -> "set_analysis_result"
           /\ ret'.key = KeyOf(x))
          => \A y \in Addresses \ {x} :
                /\ KeyOf(y) # KeyOf(x)
                /\ Reading(store', y) = Reading(store, y)]_vars

(***************************************************************************)
(* ConnSpec: the cache behind a manager whose handle is closed and a       *)
(* server that goes away and comes back.  A client call fails while the    *)
(* server does not answer; what a call on a closed handle does is the      *)
(* client library's choice, so it may fail or not.                         *)
(***************************************************************************)
ClientFails(m) ==
    IF ~m.reachable THEN {TRUE} ELSE IF m.closed THEN BOOLEAN ELSE {FALSE}

Managed(op, raised) ==
    /\ ret' = [op |-> op, key |-> <<>>, val |-> PyNone, err |-> FALSE,
               raised |-> raised]
    /\ logged' = <<>>
    /\ UNCHANGED <<store, scan, hist>>
    /\ UNCHANGED <<regVars, reader>>

\* get_redis_client(), as get_redis_info calls it
GetRedisClient ==
    LET r == get_client(redis_manager) IN
    /\ redis_manager.loaded
    /\ redis_manager' = r.m
    /\ Managed("get_redis_client", r.raised)

\* redis_manager.close()
Close ==
    /\ redis_manager.loaded
    /\ redis_manager' = close(redis_manager)
    /\ Managed("close", FALSE)

\* the server stops answering, or answers again
ServerTurns ==
    /\ redis_manager' = [redis_manager EXCEPT !.reachable = ~@]
    /\ Managed("none", FALSE)

ConnInit ==
    /\ KeyspaceInit({KeyU1})
    /\ \E reachable \in BOOLEAN : redis_manager = RedisManager(reachable)
    /\ RegistryInit(NoCreds)

ConnNext ==
    \/ /\ redis_manager.loaded
       /\ CacheNext({KeyU1}, {PyInt(7)}, {PyNone, PyInt(MaxTtl)}, {MaxTtl},
                    {Star}, ClientFails(redis_manager))
    \/ GetRedisClient
    \/ Close
    \/ ServerTurns

ConnSpec == ConnInit /\ [][ConnNext]_vars

CacheOps == {"set", "get", "delete", "exists", "expire", "get_ttl", "clear_pattern"}

\* C15: a CacheManager call made while the manager holds no live handle
\* re-establishes the handle before it is served: with the server
\* answering, the manager holds a live handle when the call returns, and the
\* call is served.
C15_Reconnects ==
    [][(/\ ret'.op \in CacheOps
        /\ ~Live(redis_manager)
        /\ redis_manager.reachable)
       => (Live(redis_manager') /\ ~ret'.err)]_vars

(***************************************************************************)
(* ConcurrentSpec: get_models_by_provider and get_models_by_type are dict  *)
(* comprehensions over self._models.items(); another thread's add_model or *)
(* remove_model can run between two entries.  The iterator raises          *)
(* RuntimeError when the dict's size is not the size it started with; the  *)
(* entry it yields next is one it has not yielded (the position in the     *)
(* dict's insertion order is not tracked).                                 *)
(***************************************************************************)
MaxWrites == 2   \* writes of other threads during one comprehension

recommendations(model_type) ==
    CASE model_type = "reasoning" -> {"o1-preview", "gpt-4o"}
      [] model_type = "fast" -> {"gpt-4o-mini", "deepseek-chat"}
      [] model_type = "analysis" -> {"gpt-4o", "claude-3-sonnet"}
      [] model_type = "chat" -> {"gpt-4o-mini", "deepseek-chat"}
      [] OTHER -> {}

get_models_by_type(models, model_type) ==
    [name \in {n \in DOMAIN models : n \in recommendations(model_type)} |->
        models[name]]

\* the "if" of the comprehension
Keeps(op, arg, name, config) ==
    IF op = "get_models_by_provider" THEN config.provider = arg
    ELSE name \in recommendations(arg)

\* the read run on a dict nobody writes
Filtered(op, arg, models) ==
    IF op = "get_models_by_provider" THEN get_models_by_provider(models, arg)
    ELSE get_models_by_type(models, arg)

\* the comprehension creates its iterator
ReadStart(op, arg) ==
    /\ imported /\ ~reader.active
    /\ reader' = [active |-> TRUE, op |-> op, arg |-> arg,
                  used |-> Cardinality(DOMAIN heap["models"]),
                  visited |-> {}, acc |-> EmptyDict,
                  seen |-> {heap["models"]}, writes |-> 0]
    /\ reply' = NoReply
    /\ UNCHANGED <<creds, imported, heap, snap, lastAdd>>
    /\ UNCHANGED <<cacheVars, redis_manager>>

\* one next() of the iterator: RuntimeError, the end, or one more entry
ReadStep ==
    LET models == heap["models"]
        left == DOMAIN models \ reader.visited
    IN /\ imported /\ reader.active
       /\ IF Cardinality(DOMAIN models) # reader.used
          THEN /\ reader' = [reader EXCEPT !.active = FALSE]
               /\ reply' = Reply(reader.op, reader.arg, PyNone, PyNone, TRUE)
          ELSE IF left = {}
          THEN /\ reader' = [reader EXCEPT !.active = FALSE]
               /\ reply' = Reply(reader.op, reader.arg, PyNone, reader.acc, FALSE)
          ELSE /\ \E name \in left :
                    reader' = [reader EXCEPT
                                 !.visited = @ \cup {name},
                                 !.acc = IF Keeps(reader.op, reader.arg, name,
                                                  models[name])
                                         THEN DictSet(@, name, models[name])
                                         ELSE @]
               /\ reply' = NoReply
       /\ UNCHANGED <<creds, imported, heap, snap, lastAdd>>
       /\ UNCHANGED <<cacheVars, redis_manager>>

\* the registry as it stands after a write, noted for a running read
Noted(r, models) ==
    IF r.active THEN [r EXCEPT !.seen = @ \cup {models}, !.writes = @ + 1] ELSE r

\* add_model called by another thread
WriteAdd(name, config) ==
    /\ imported
    /\ reader.active => reader.writes < MaxWrites
    /\ heap' = [heap EXCEPT !["models"] = add_model(@, name, config)]
    /\ reply' = Reply("add_model", name, config, PyNone, FALSE)
    /\ lastAdd' = DictSet(lastAdd, name, config)
    /\ reader' = Noted(reader, heap'["models"])
    /\ UNCHANGED <<creds, imported, snap>>
    /\ UNCHANGED <<cacheVars, redis_manager>>

\* remove_model called by another thread
WriteRemove(name) ==
    LET r == remove_model(heap["models"], name) IN
    /\ imported
    /\ reader.active => reader.writes < MaxWrites
    /\ heap' = [heap EXCEPT !["models"] = r.models]
    /\ reply' = Reply("remove_model", name, PyNone, PyNone, r.raised)
    /\ reader' = Noted(reader, heap'["models"])
    /\ UNCHANGED <<creds, imported, snap, lastAdd>>
    /\ UNCHANGED <<cacheVars, redis_manager>>

ConcurrentIds == {"gpt-4o", "llama3"}
ReadCalls == {<<"get_models_by_provider", "anthropic">>,
              <<"get_models_by_type", "analysis">>}

ConcurrentInit == CacheInit({KeyU1}) /\ RegistryInit(NoCreds)
ConcurrentNext ==
    \/ \E r \in ReadCalls : ReadStart(r[1], r[2])
    \/ ReadStep
    \/ \E id \in ConcurrentIds, c \in Configs : WriteAdd(id, c)
    \/ \E id \in ConcurrentIds : WriteRemove(id)
ConcurrentSpec == ConcurrentInit /\ [][ConcurrentNext]_vars

\* C16: a get_models_by_provider or get_models_by_type that runs while other
\* threads add and remove completes without error and returns the filter of
\* the registry as it stood at one instant between its start and its end.
C16_ReadsAtomic ==
    (reply.op \in {"get_models_by_provider", "get_models_by_type"}
        /\ ~reader.active /\ reader.op = reply.op)
    => /\ ~reply.raised
       /\ \E models \in reader.seen :
             reply.val = Filtered(reply.op, reply.id, models)

====
